---- MODULE Spec2Model ----
(***************************************************************************)
(* Model of the greenlight anime API: the versioned record store          *)
(* (internal/data/movies.go), the anime handlers (cmd/api/animes.go) and   *)
(* the route table (cmd/api/routes.go).  The middleware and the helpers   *)
(* the sources only call (authenticate, requirePermission, rateLimit,     *)
(* Filters, calculateMetadata, readIDParam) follow the specification.     *)
(*                                                                         *)
(* Values.  A title is a sequence of words, a word a natural number whose *)
(* numeric order is the collation order; LongWord stands for a word of    *)
(* more than 500 bytes.  A Go slice is a record [nil, elems].  The table  *)
(* `animes` is a function from the IDs of the stored rows to the rows.    *)
(* The database answers every statement: timeouts and lost connections    *)
(* are left out.                                                           *)
(*                                                                         *)
(* Specifications.                                                         *)
(*   Spec      requests of clients holding both permissions, served by    *)
(*             two workers concurrently; updateAnimeHandler takes two     *)
(*             steps, its Get and its Update.                              *)
(*   SpecGate  requests with every credential, served one at a time.      *)
(*   SpecHeader PATCH requests with X-Expected-Version on a row of any    *)
(*             Version.                                                    *)
(*   SpecData  calls of AnimeModel.Insert, Get, Update and Delete.        *)
(*   SpecList  one call of AnimeModel.GetAll on any table.                *)
(*   SpecPages the calls of GetAll of a client reading every page of a    *)
(*             list.                                                       *)
(*   SpecMeta  one call of calculateMetadata.                             *)
(*   SpecLimit calls of the rate limiter while time passes.               *)
(*   SpecLock  concurrent calls of the rate limiter and its sweep, one    *)
(*             step per lock operation and per access to the map.         *)
(*   SpecPipe  requests walking through the middleware chain, one stage   *)
(*             a step.                                                     *)
(***************************************************************************)
EXTENDS Integers, Sequences, FiniteSets, TLC

VARIABLES
    animes,     \* the animes table: id -> row
    nextID,     \* the bigserial sequence behind animes.id
    updated,    \* history: id -> number of Update calls that returned nil
    deleted,    \* history: the IDs for which Delete returned nil
    last,       \* the data-package call made last: arguments and results;
                \* in SpecPipe the request on its way through the middleware
    req,        \* per request worker: position in its handler (in SpecLock:
                \* in its call of Allow) and locals
    buckets,    \* the rate limiter's map: client IP -> token bucket
    now,        \* the clock, in ticks
    hist,       \* history: per client IP, the calls of Allow on its bucket
    mu          \* the rate limiter's mutex: its holder, or "none"

vars == <<animes, nextID, updated, deleted, last, req, buckets, now, hist, mu>>

apiVars == <<animes, nextID, updated, deleted, last, req>>

limiterVars == <<buckets, now, hist, mu>>

\* ---------------------------------------------------------------- bounds
MaxID == 2          \* number of rows ever inserted by requests
MaxRows == 3        \* number of rows of a table GetAll reads
MaxPage == 3        \* largest Page requested
MaxPageSize == 2    \* largest PageSize requested
MaxTotal == 9       \* largest totalRecords handed to calculateMetadata

\* ------------------------------------------------------------- constants
CurrentYear == 2026
MaxTitleBytes == 500
MinYear == 1888
MaxGenres == 5
FirstVersion == 1
LongWord == 9

\* ----------------------------------------------------------------- values
Slice(s) == [nil |-> FALSE, elems |-> s]
NilSlice == [nil |-> TRUE, elems |-> <<>>]

Range(s) == {s[i] : i \in 1..Len(s)}

Min(a, b) == IF a < b THEN a ELSE b

WordBytes(w) == IF w = LongWord THEN MaxTitleBytes + 1 ELSE 6

RECURSIVE TitleBytes(_)
\* len(anime.Title): the words' bytes plus the separating spaces
TitleBytes(t) ==
    IF t = <<>> THEN 0
    ELSE WordBytes(Head(t)) + (IF Len(t) > 1 THEN 1 ELSE 0) + TitleBytes(Tail(t))

RECURSIVE TitleLess(_, _)
\* text comparison of two titles (ORDER BY title)
TitleLess(a, b) ==
    IF b = <<>> THEN FALSE
    ELSE IF a = <<>> THEN TRUE
    ELSE IF Head(a) # Head(b) THEN Head(a) < Head(b)
    ELSE TitleLess(Tail(a), Tail(b))

\* validator.Unique
Unique(s) == Cardinality(Range(s)) = Len(s)

\* the zero Anime a handler starts from
Anime(title, year, runtime, genres) ==
    [id |-> 0, created_at |-> 0, title |-> title, year |-> year,
     runtime |-> runtime, genres |-> genres, version |-> 0]

\* ValidateAnime: v.Valid() after all the checks
ValidateAnime(anime) ==
    /\ anime.title # <<>>
    /\ TitleBytes(anime.title) <= MaxTitleBytes
    /\ anime.year # 0
    /\ anime.year >= MinYear
    /\ anime.year <= CurrentYear
    /\ anime.runtime # 0
    /\ anime.runtime > 0
    /\ ~anime.genres.nil
    /\ Len(anime.genres.elems) >= 1
    /\ Len(anime.genres.elems) <= MaxGenres
    /\ Unique(anime.genres.elems)

\* ------------------------------------------------------- AnimeModel.Insert
\* faulty variant: the RETURNING columns left unscanned
InsertRowUnscanned(anime, id) == anime

\* INSERT ... RETURNING id, created_at, version: the row gets the next value
\* of the sequence, the insertion time and the column default of version.
InsertRow(anime, id) ==
    [anime EXCEPT !.id = id, !.created_at = id, !.version = FirstVersion]

\* ---------------------------------------------------------- AnimeModel.Get
Get(store, id) ==
    IF id < 1 THEN [err |-> "ErrRecordNotFound"]
    ELSE IF id \notin DOMAIN store THEN [err |-> "ErrRecordNotFound"]
    ELSE [err |-> "nil", anime |-> store[id]]

\* ------------------------------------------------------- AnimeModel.Update
\* The statement Update sends is a SELECT with two placeholders and seven
\* result columns; it is given six arguments and its row is scanned into one
\* destination.  It writes nothing.  Scan cannot succeed, so the call never
\* returns nil: the driver reports either no row (sql.ErrNoRows, mapped to
\* ErrEditConflict) or another error (returned as it is).
\* faulty variant: an UPDATE ... WHERE id = $5 without the version clause
UpdateBlindWrite(store, anime) ==
    IF anime.id \in DOMAIN store
    THEN { [err |-> "nil", version |-> anime.version + 1,
            store |-> [store EXCEPT ![anime.id] =
                          [anime EXCEPT !.version = anime.version + 1]]] }
    ELSE { [err |-> "ErrEditConflict", version |-> anime.version, store |-> store] }

UpdateOutcomes(store, anime) ==
    { [err |-> e, version |-> anime.version, store |-> store] :
        e \in {"ErrEditConflict", "StoreError"} }

\* ------------------------------------------------------- AnimeModel.Delete
\* faulty variant: a DELETE that removes no row
DeleteNoRows(store, id) == store

DeleteRows(store, id) == [i \in (DOMAIN store) \ {id} |-> store[i]]

\* faulty variant: a Delete that does not look at RowsAffected
DeleteUnchecked(store, id) ==
    IF id < 1 THEN [err |-> "ErrRecordNotFound", store |-> store]
    ELSE [err |-> "nil", store |-> DeleteRows(store, id)]

Delete(store, id) ==
    IF id < 1 THEN [err |-> "ErrRecordNotFound", store |-> store]
    ELSE IF Cardinality((DOMAIN store) \cap {id}) = 0
         THEN [err |-> "ErrRecordNotFound", store |-> DeleteRows(store, id)]
         ELSE [err |-> "nil", store |-> DeleteRows(store, id)]

\* ------------------------------------------------------------- data.Filters
SortSafelist == {"id", "title", "year", "runtime", "-id", "-title", "-year", "-runtime"}

Descending == {"-id", "-title", "-year", "-runtime"}

\* Filters.sortColumn: the sort value without its leading "-"
sortColumn(f) ==
    CASE f.Sort \in {"id", "-id"} -> "id"
      [] f.Sort \in {"title", "-title"} -> "title"
      [] f.Sort \in {"year", "-year"} -> "year"
      [] f.Sort \in {"runtime", "-runtime"} -> "runtime"

\* Filters.sortDirection
sortDirection(f) == IF f.Sort \in Descending THEN "DESC" ELSE "ASC"

limit(f) == f.PageSize

offset(f) == (f.Page - 1) * f.PageSize

\* ValidateFilters: v.Valid() after all the checks
ValidateFilters(f) ==
    /\ f.Page >= 1
    /\ f.PageSize >= 1
    /\ f.PageSize <= 100
    /\ f.Sort \in SortSafelist

EmptyMetadata ==
    [CurrentPage |-> 0, PageSize |-> 0, FirstPage |-> 0, LastPage |-> 0, TotalRecords |-> 0]

\* ceil(a / b) for a >= 0, b > 0
CeilDiv(a, b) == (a + b - 1) \div b

\* faulty variant: the last page rounded down
calculateMetadataFloor(totalRecords, page, pageSize) ==
    IF totalRecords = 0 THEN EmptyMetadata
    ELSE [CurrentPage |-> page, PageSize |-> pageSize, FirstPage |-> 1,
          LastPage |-> totalRecords \div pageSize, TotalRecords |-> totalRecords]

calculateMetadata(totalRecords, page, pageSize) ==
    IF totalRecords = 0 THEN EmptyMetadata
    ELSE [CurrentPage |-> page, PageSize |-> pageSize, FirstPage |-> 1,
          LastPage |-> CeilDiv(totalRecords, pageSize), TotalRecords |-> totalRecords]

\* ------------------------------------------------------- AnimeModel.GetAll
\* to_tsvector('simple', title) @@ plainto_tsquery('simple', $1) OR $1 = ''
TitleMatches(row, title) == title = <<>> \/ Range(title) \subseteq Range(row.title)

\* faulty variant: genres && $2 OR $2 = '{}'
GenresOverlap(row, genres) ==
    genres = <<>> \/ Range(genres) \cap Range(row.genres.elems) # {}

\* genres @> $2 OR $2 = '{}'
GenresMatch(row, genres) == genres = <<>> \/ Range(genres) \subseteq Range(row.genres.elems)

Matching(store, title, genres) ==
    {i \in DOMAIN store : TitleMatches(store[i], title) /\ GenresMatch(store[i], genres)}

\* row a has a smaller value than row b in column col
ColumnLess(a, b, col) ==
    CASE col = "id" -> a.id < b.id
      [] col = "title" -> TitleLess(a.title, b.title)
      [] col = "year" -> a.year < b.year
      [] col = "runtime" -> a.runtime < b.runtime

\* faulty variant: ORDER BY %s %s, id DESC
BeforeIdDesc(a, b, col, dir) ==
    LET first == IF dir = "DESC" THEN ColumnLess(b, a, col) ELSE ColumnLess(a, b, col)
        second == IF dir = "DESC" THEN ColumnLess(a, b, col) ELSE ColumnLess(b, a, col)
    IN first \/ (~second /\ a.id > b.id)

\* ORDER BY %s %s, id ASC: row a comes before row b
Before(a, b, col, dir) ==
    LET first == IF dir = "DESC" THEN ColumnLess(b, a, col) ELSE ColumnLess(a, b, col)
        second == IF dir = "DESC" THEN ColumnLess(a, b, col) ELSE ColumnLess(b, a, col)
    IN first \/ (~second /\ a.id < b.id)

\* the matching rows in the order of ORDER BY
Ordered(store, ids, col, dir) ==
    [k \in 1..Cardinality(ids) |->
        CHOOSE i \in ids :
            Cardinality({j \in ids : j # i /\ Before(store[j], store[i], col, dir)}) = k - 1]

\* faulty variant: LIMIT $3 without OFFSET
WindowFirst(rows, lim, off) == SubSeq(rows, 1, Min(lim, Len(rows)))

\* LIMIT $3 OFFSET $4
Window(rows, lim, off) ==
    IF off >= Len(rows) THEN <<>>
    ELSE SubSeq(rows, off + 1, Min(off + lim, Len(rows)))

\* the result set of the query: every row carries count(*) OVER()
QueryRows(store, title, genres, f) ==
    LET ids == Matching(store, title, genres)
        page == Window(Ordered(store, ids, sortColumn(f), sortDirection(f)), limit(f), offset(f))
    IN [k \in 1..Len(page) |-> [count |-> Cardinality(ids), anime |-> store[page[k]]]]

\* the rows.Next() loop: totalRecords is what the last row scanned left in it
ScanTotal(rows) == IF rows = <<>> THEN 0 ELSE rows[Len(rows)].count

GetAll(store, title, genres, f) ==
    LET rows == QueryRows(store, title, genres, f)
    IN [animes |-> [k \in 1..Len(rows) |-> rows[k].anime],
        metadata |-> calculateMetadata(ScanTotal(rows), f.Page, f.PageSize)]

\* ------------------------------------------------- calls of package data
\* The rows AnimeModel is handed: the store assumes validated input.
ValidAnimes ==
    { Anime(<<1>>, 2002, 23, Slice(<<"action">>)),
      Anime(<<1, 2>>, 2003, 23, Slice(<<"action", "adventure">>)),
      Anime(<<2>>, 2002, 45, Slice(<<"adventure">>)) }

MaxVersion == 2     \* largest Version a caller of Update presents

TitleQueries == {<<>>, <<1>>, <<1, 2>>}

GenreFilters == {<<>>, <<"action">>, <<"action", "adventure">>}

ValidFilters ==
    { f \in [Page : 1..MaxPage, PageSize : 1..MaxPageSize, Sort : SortSafelist] :
        ValidateFilters(f) }

Workers == {"w1", "w2"}

Idle == [pc |-> "idle"]

NoCall == [op |-> "none"]

DataInit ==
    /\ animes = <<>>
    /\ nextID = 1
    /\ updated = <<>>
    /\ deleted = {}
    /\ last = NoCall
    /\ req = [p \in Workers |-> Idle]
    /\ buckets = <<>>
    /\ now = 0
    /\ hist = <<>>
    /\ mu = "none"

\* the table after INSERT of anime as row id
Inserted(store, anime, id) ==
    [i \in (DOMAIN store) \cup {id} |-> IF i = id THEN InsertRow(anime, id) ELSE store[i]]

DataInsert(anime) ==
    /\ nextID <= MaxID
    /\ animes' = Inserted(animes, anime, nextID)
    /\ nextID' = nextID + 1
    /\ updated' = [i \in (DOMAIN updated) \cup {nextID} |-> IF i = nextID THEN 0 ELSE updated[i]]
    /\ last' = [op |-> "Insert", err |-> "nil", anime |-> InsertRow(anime, nextID)]
    /\ UNCHANGED <<deleted, req, limiterVars>>

DataGet(id) ==
    /\ last' = [op |-> "Get", id |-> id, res |-> Get(animes, id)]
    /\ UNCHANGED <<animes, nextID, updated, deleted, req, limiterVars>>

\* history: one more successful Update of row id
Counted(id, err) ==
    IF err = "nil" /\ id \in DOMAIN updated
    THEN [updated EXCEPT ![id] = @ + 1]
    ELSE updated

DataUpdate(anime) ==
    \E out \in UpdateOutcomes(animes, anime) :
        /\ animes' = out.store
        /\ updated' = Counted(anime.id, out.err)
        /\ last' = [op |-> "Update", arg |-> anime, err |-> out.err, version |-> out.version]
        /\ UNCHANGED <<nextID, deleted, req, limiterVars>>

DataDelete(id) ==
    LET out == Delete(animes, id)
    IN /\ animes' = out.store
       /\ deleted' = IF out.err = "nil" THEN deleted \cup {id} ELSE deleted
       /\ last' = [op |-> "Delete", id |-> id, err |-> out.err]
       /\ UNCHANGED <<nextID, updated, req, limiterVars>>

\* the records a caller of Update can hold: a row it read, edited, with the
\* version it read or another one
UpdateArgs ==
    { [a EXCEPT !.id = i, !.created_at = i, !.version = v] :
        a \in ValidAnimes, i \in 1..MaxID, v \in FirstVersion..MaxVersion }

DataNext ==
    \/ \E anime \in ValidAnimes : DataInsert(anime)
    \/ \E id \in 0..MaxID : DataGet(id)
    \/ \E anime \in UpdateArgs : DataUpdate(anime)
    \/ \E id \in 0..MaxID : DataDelete(id)

SpecData == DataInit /\ [][DataNext]_vars

\* ------------------------------------------------------ calls of GetAll
\* GetAll reads one snapshot of the table: any table Insert and Delete can
\* leave behind, any query and any valid Filters.
Stores ==
    { [i \in DOMAIN c |-> InsertRow(c[i], i)] :
        c \in UNION { [D -> ValidAnimes] : D \in SUBSET (1..MaxRows) } }

ListInit ==
    /\ animes \in Stores
    /\ nextID = MaxRows + 1
    /\ updated = [i \in 1..MaxRows |-> 0]
    /\ deleted = (1..MaxRows) \ DOMAIN animes
    /\ \E title \in TitleQueries, genres \in GenreFilters, f \in ValidFilters :
          last = [op |-> "call GetAll", title |-> title, genres |-> genres, filters |-> f]
    /\ req = [p \in Workers |-> Idle]
    /\ buckets = <<>>
    /\ now = 0
    /\ hist = <<>>
    /\ mu = "none"

DataGetAll ==
    /\ last.op = "call GetAll"
    /\ last' = [op |-> "GetAll", title |-> last.title, genres |-> last.genres,
                filters |-> last.filters,
                res |-> GetAll(animes, last.title, last.genres, last.filters)]
    /\ UNCHANGED <<animes, nextID, updated, deleted, req, limiterVars>>

ListNext == DataGetAll

SpecList == ListInit /\ [][ListNext]_vars

\* ------------------------------------------- GetAll, page after page
\* A client reads a list to its end: it calls GetAll for page 1 and then
\* for every page up to the LastPage of the metadata it got, the table, the
\* query, Sort and PageSize staying the same.
PagesInit ==
    /\ animes \in Stores
    /\ nextID = MaxRows + 1
    /\ updated = [i \in 1..MaxRows |-> 0]
    /\ deleted = (1..MaxRows) \ DOMAIN animes
    /\ \E title \in TitleQueries, genres \in GenreFilters, f \in ValidFilters :
          /\ f.Page = 1
          /\ last = [op |-> "call GetAll pages", title |-> title, genres |-> genres,
                     filters |-> f]
    /\ req = [p \in Workers |-> Idle]
    /\ buckets = <<>>
    /\ now = 0
    /\ hist = <<>>
    /\ mu = "none"

DataGetAllPages ==
    LET first == GetAll(animes, last.title, last.genres, last.filters)
    IN /\ last.op = "call GetAll pages"
       /\ last' = [op |-> "GetAll pages", title |-> last.title, genres |-> last.genres,
                   filters |-> last.filters,
                   pages |-> [k \in 1..first.metadata.LastPage |->
                                GetAll(animes, last.title, last.genres,
                                       [last.filters EXCEPT !.Page = k])]]
       /\ UNCHANGED <<animes, nextID, updated, deleted, req, limiterVars>>

PagesNext == DataGetAllPages

SpecPages == PagesInit /\ [][PagesNext]_vars

\* ------------------------------------------- calls of calculateMetadata
MetaInit ==
    /\ animes = <<>>
    /\ nextID = 1
    /\ updated = <<>>
    /\ deleted = {}
    /\ \E total \in 0..MaxTotal, page \in 1..MaxPage, pageSize \in 1..MaxPageSize :
          last = [op |-> "call calculateMetadata", total |-> total, page |-> page,
                  pageSize |-> pageSize]
    /\ req = [p \in Workers |-> Idle]
    /\ buckets = <<>>
    /\ now = 0
    /\ hist = <<>>
    /\ mu = "none"

DataMetadata ==
    /\ last.op = "call calculateMetadata"
    /\ last' = [op |-> "calculateMetadata", total |-> last.total, page |-> last.page,
                pageSize |-> last.pageSize,
                res |-> calculateMetadata(last.total, last.page, last.pageSize)]
    /\ UNCHANGED <<animes, nextID, updated, deleted, req, limiterVars>>

MetaNext == DataMetadata

SpecMeta == MetaInit /\ [][MetaNext]_vars

\* ====================================================== the HTTP pipeline
\* ------------------------------------------------------------ credentials
\* "none": no Authorization header; "bad": a malformed, unknown or expired
\* token; otherwise the token of the user of that name.
Users == {"guest", "reader", "writer"}

Granted ==
    [u \in Users |->
        CASE u = "guest" -> {}
          [] u = "reader" -> {"animes:read"}
          [] u = "writer" -> {"animes:read", "animes:write"}]

Anonymous == [anonymous |-> TRUE, permissions |-> {}]

\* app.authenticate: the principal of the request, or the 401 of an invalid
\* credential
authenticate(cred) ==
    CASE cred = "none" -> [status |-> 0, principal |-> Anonymous]
      [] cred = "bad" -> [status |-> 401, principal |-> Anonymous]
      [] OTHER -> [status |-> 0,
                   principal |-> [anonymous |-> FALSE, permissions |-> Granted[cred]]]

\* faulty variant: requirePermission without the look-up of the permission
requireAuthenticated(key, principal) == IF principal.anonymous THEN 401 ELSE 0

\* app.requirePermission(key, next): 0 when next is invoked
requirePermission(key, principal) ==
    IF principal.anonymous THEN 401
    ELSE IF key \notin principal.permissions THEN 403
    ELSE 0

\* ------------------------------------------------------------------ routes
Route(method, path, permission, handler) ==
    [method |-> method, path |-> path, permission |-> permission, handler |-> handler]

\* faulty variant: DELETE registered behind animes:read
RoutesDeleteBehindRead ==
    { Route("GET", "/v1/healthcheck", "", "healthcheckHandler"),
      Route("GET", "/v1/animes", "animes:read", "listAnimesHandler"),
      Route("POST", "/v1/animes", "animes:write", "createAnimeHandler"),
      Route("GET", "/v1/animes/:id", "animes:read", "showAnimeHandler"),
      Route("PATCH", "/v1/animes/:id", "animes:write", "updateAnimeHandler"),
      Route("DELETE", "/v1/animes/:id", "animes:read", "deleteAnimeHandler"),
      Route("POST", "/v1/users", "", "registerUserHandler"),
      Route("PUT", "/v1/users/activated", "", "activateUserHandler"),
      Route("POST", "/v1/tokens/authentication", "", "createAuthenticationTokenHandler") }

\* the registrations of routes(); permission "" is a handler registered bare
Routes ==
    { Route("GET", "/v1/healthcheck", "", "healthcheckHandler"),
      Route("GET", "/v1/animes", "animes:read", "listAnimesHandler"),
      Route("POST", "/v1/animes", "animes:write", "createAnimeHandler"),
      Route("GET", "/v1/animes/:id", "animes:read", "showAnimeHandler"),
      Route("PATCH", "/v1/animes/:id", "animes:write", "updateAnimeHandler"),
      Route("DELETE", "/v1/animes/:id", "animes:write", "deleteAnimeHandler"),
      Route("POST", "/v1/users", "", "registerUserHandler"),
      Route("PUT", "/v1/users/activated", "", "activateUserHandler"),
      Route("POST", "/v1/tokens/authentication", "", "createAuthenticationTokenHandler") }

\* the router: the registration matching method and path, else
\* router.NotFound or router.MethodNotAllowed
Match(method, path) ==
    IF \E rt \in Routes : rt.method = method /\ rt.path = path
    THEN [status |-> 0, route |-> CHOOSE rt \in Routes : rt.method = method /\ rt.path = path]
    ELSE IF \E rt \in Routes : rt.path = path
    THEN [status |-> 405, route |-> Route(method, path, "", "methodNotAllowedResponse")]
    ELSE [status |-> 404, route |-> Route(method, path, "", "notFoundResponse")]

\* recoverPanic(rateLimit(authenticate(router))) for a request the rate
\* limiter admits: the handler the request reaches and, when it reaches
\* none of the registered ones, the status of the rejection
Dispatch(r) ==
    LET auth == authenticate(r.cred)
        m == Match(r.mp[1], r.mp[2])
        perm == IF m.route.permission = "" THEN 0
                ELSE requirePermission(m.route.permission, auth.principal)
    IN IF auth.status # 0 THEN [status |-> auth.status, handler |-> "none"]
       ELSE IF m.status # 0 THEN [status |-> m.status, handler |-> m.route.handler]
       ELSE IF perm # 0 THEN [status |-> perm, handler |-> "none"]
       ELSE [status |-> 0, handler |-> m.route.handler]

\* ---------------------------------------------------------------- requests
\* A string of digits is the sequence of its digits' values: 0..9 for the
\* characters 0..9 and 10..35 for a..z.
RECURSIVE FormatUint(_, _)
FormatUint(n, base) ==
    IF n < base THEN <<n>> ELSE Append(FormatUint(n \div base, base), n % base)

\* strconv.FormatInt(int64(v), base) for v >= 0
FormatInt(v, base) == FormatUint(v, base)

\* strconv.ParseInt(s, base, 64) of a string of digits
RECURSIVE ParseInt(_, _)
ParseInt(s, base) ==
    IF s = <<>> THEN 0
    ELSE ParseInt(SubSeq(s, 1, Len(s) - 1), base) * base + s[Len(s)]

\* fmt.Sprintf("/v1/animes/%d", id): the path and the digits of id
Location(id) == <<"/v1/animes/", FormatInt(id, 10)>>

NoLocation == <<>>

\* app.readIDParam of the URL parameter :id, here a number
readIDParam(param) ==
    IF param >= 1
    THEN [err |-> "nil", id |-> param]
    ELSE [err |-> "invalid id parameter", id |-> 0]

\* a JSON body: the fields it carries, or text readJSON rejects
Body(fields) == [ok |-> TRUE, fields |-> fields]
BadJSON == [ok |-> FALSE, fields |-> <<>>]

Has(body, field) == field \in DOMAIN body.fields

ValidBody ==
    Body([title |-> <<1>>, year |-> 2002, runtime |-> 23,
          genres |-> Slice(<<"action", "adventure">>)])

CreateBodies ==
    { ValidBody,
      Body([title |-> <<1>>, runtime |-> 23, genres |-> Slice(<<"action", "action">>)]),
      BadJSON }

PatchBodies ==
    { Body([year |-> 2003]),
      Body([title |-> <<2>>, genres |-> Slice(<<"adventure">>)]),
      Body([year |-> CurrentYear + 1]),
      BadJSON }

\* the value of X-Expected-Version: absent, or a version written in decimal
Headers == {<<>>} \cup {FormatInt(v, 10) : v \in FirstVersion..MaxVersion}

Query(title, genres, page, pageSize, sort) ==
    [title |-> title, genres |-> genres,
     filters |-> [Page |-> page, PageSize |-> pageSize, Sort |-> sort]]

\* readString, readCSV and readInt with their defaults, page_size made small
DefaultQuery == Query(<<>>, <<>>, 1, MaxPageSize, "id")

Queries ==
    { DefaultQuery,
      Query(<<1>>, <<"action">>, 2, 1, "-year"),
      Query(<<>>, <<>>, 0, 1, "id"),
      Query(<<>>, <<>>, 1, 1, "created_at") }

Creds == {"none", "bad"} \cup Users

MethodPaths ==
    { <<rt.method, rt.path>> : rt \in Routes }
        \cup { <<"GET", "/v1/nothing">>, <<"PUT", "/v1/animes">> }

IDParams == 0..MaxID

ReadsID == {"showAnimeHandler", "updateAnimeHandler", "deleteAnimeHandler"}

ReadsBody == {"createAnimeHandler", "updateAnimeHandler"}

\* Every request is represented: of the requests that differ only in a part
\* nothing on their way reads, the one with the default part is kept, and
\* X-Expected-Version comes with one body.
Requests ==
    { r \in [mp : MethodPaths, cred : Creds, id : IDParams, header : Headers,
             body : CreateBodies \cup PatchBodies, query : Queries] :
        LET h == IF Dispatch(r).status = 0 THEN Dispatch(r).handler ELSE "none"
        IN /\ h \notin ReadsID => r.id = 1
           /\ h # "updateAnimeHandler" => r.header = <<>>
           /\ r.header # <<>> => r.body = Body([year |-> 2003])
           /\ h = "createAnimeHandler" => r.body \in CreateBodies
           /\ h = "updateAnimeHandler" => r.body \in PatchBodies
           /\ h \notin ReadsBody => r.body = ValidBody
           /\ h # "listAnimesHandler" => r.query = DefaultQuery }

\* ---------------------------------------------------------------- handlers
NoAnime == Anime(<<>>, 0, 0, NilSlice)

NoList == [animes |-> <<>>, metadata |-> EmptyMetadata]

\* a worker that has answered: the request, the handler it reached, the
\* status and the body of the response
Done(r, handler, status, anime, list) ==
    [pc |-> "done", r |-> r, handler |-> handler, status |-> status,
     anime |-> anime, list |-> list, location |-> NoLocation, seen |-> 0, rivals |-> {}]

\* a worker inside updateAnimeHandler, between Get and Update.  History:
\* seen is the Version that Get returned, rivals the workers that were
\* between Get and Update on the same row and Version when Get returned.
Updating(r, anime, rivals) ==
    [pc |-> "update", r |-> r, handler |-> "updateAnimeHandler", status |-> 0,
     anime |-> anime, list |-> NoList, location |-> NoLocation,
     seen |-> anime.version, rivals |-> rivals]

Free(p) == req[p].pc \in {"idle", "done"}

Reaches(r, handler) == Dispatch(r).status = 0 /\ Dispatch(r).handler = handler

\* a request that ends before a registered handler: 401 of authenticate,
\* 404 or 405 of the router, 401 or 403 of requirePermission
Reject(p, r) ==
    /\ Free(p)
    /\ Dispatch(r).status # 0
    /\ req' = [req EXCEPT ![p] = Done(r, Dispatch(r).handler, Dispatch(r).status, NoAnime, NoList)]
    /\ UNCHANGED <<animes, nextID, updated, deleted, last, limiterVars>>

\* healthcheckHandler, registerUserHandler, activateUserHandler and
\* createAuthenticationTokenHandler: they do not touch the animes table
OtherHandlers ==
    {"healthcheckHandler", "registerUserHandler", "activateUserHandler",
     "createAuthenticationTokenHandler"}

OtherHandler(p, r) ==
    /\ Free(p)
    /\ Dispatch(r).status = 0
    /\ Dispatch(r).handler \in OtherHandlers
    /\ req' = [req EXCEPT ![p] = Done(r, Dispatch(r).handler, 200, NoAnime, NoList)]
    /\ UNCHANGED <<animes, nextID, updated, deleted, last, limiterVars>>

\* the value of a field of the input struct of createAnimeHandler
Field(body, field, zero) == IF Has(body, field) THEN body.fields[field] ELSE zero

\* faulty variant: Insert called without ValidateAnime
createAnimeHandlerUnvalidated(p, r) ==
    LET anime == Anime(Field(r.body, "title", <<>>), Field(r.body, "year", 0),
                       Field(r.body, "runtime", 0), Field(r.body, "genres", NilSlice))
    IN /\ Free(p)
       /\ Reaches(r, "createAnimeHandler")
       /\ IF ~r.body.ok
          THEN /\ req' = [req EXCEPT ![p] = Done(r, "createAnimeHandler", 400, NoAnime, NoList)]
               /\ UNCHANGED <<animes, nextID, updated>>
          ELSE /\ nextID <= MaxID
               /\ animes' = Inserted(animes, anime, nextID)
               /\ nextID' = nextID + 1
               /\ updated' = [i \in (DOMAIN updated) \cup {nextID} |->
                                IF i = nextID THEN 0 ELSE updated[i]]
               /\ req' = [req EXCEPT ![p] =
                            [Done(r, "createAnimeHandler", 201, InsertRow(anime, nextID), NoList)
                                EXCEPT !.location = Location(InsertRow(anime, nextID).id)]]
       /\ UNCHANGED <<deleted, last, limiterVars>>

createAnimeHandler(p, r) ==
    LET anime == Anime(Field(r.body, "title", <<>>), Field(r.body, "year", 0),
                       Field(r.body, "runtime", 0), Field(r.body, "genres", NilSlice))
    IN /\ Free(p)
       /\ Reaches(r, "createAnimeHandler")
       /\ IF ~r.body.ok
          THEN /\ req' = [req EXCEPT ![p] = Done(r, "createAnimeHandler", 400, NoAnime, NoList)]
               /\ UNCHANGED <<animes, nextID, updated>>
          ELSE IF ~ValidateAnime(anime)
          THEN /\ req' = [req EXCEPT ![p] = Done(r, "createAnimeHandler", 422, NoAnime, NoList)]
               /\ UNCHANGED <<animes, nextID, updated>>
          ELSE /\ nextID <= MaxID
               /\ animes' = Inserted(animes, anime, nextID)
               /\ nextID' = nextID + 1
               /\ updated' = [i \in (DOMAIN updated) \cup {nextID} |->
                                IF i = nextID THEN 0 ELSE updated[i]]
               /\ req' = [req EXCEPT ![p] =
                            [Done(r, "createAnimeHandler", 201, InsertRow(anime, nextID), NoList)
                                EXCEPT !.location = Location(InsertRow(anime, nextID).id)]]
       /\ UNCHANGED <<deleted, last, limiterVars>>

\* the status of a failed Get or Delete
NotFoundOr500(err) == IF err = "ErrRecordNotFound" THEN 404 ELSE 500

showAnimeHandler(p, r) ==
    LET param == readIDParam(r.id)
        got == Get(animes, param.id)
    IN /\ Free(p)
       /\ Reaches(r, "showAnimeHandler")
       /\ req' = [req EXCEPT ![p] =
                    IF param.err # "nil" THEN Done(r, "showAnimeHandler", 404, NoAnime, NoList)
                    ELSE IF got.err # "nil"
                    THEN Done(r, "showAnimeHandler", NotFoundOr500(got.err), NoAnime, NoList)
                    ELSE Done(r, "showAnimeHandler", 200, got.anime, NoList)]
       /\ UNCHANGED <<animes, nextID, updated, deleted, last, limiterVars>>

\* the record read, overlaid with the fields the body carries
Merged(anime, body) ==
    [anime EXCEPT
        !.title = IF Has(body, "title") THEN body.fields.title ELSE @,
        !.year = IF Has(body, "year") THEN body.fields.year ELSE @,
        !.runtime = IF Has(body, "runtime") THEN body.fields.runtime ELSE @,
        !.genres = IF Has(body, "genres") /\ ~body.fields.genres.nil
                   THEN body.fields.genres ELSE @]

\* the X-Expected-Version check of updateAnimeHandler
HeaderMatches(anime, header) == header = <<>> \/ FormatInt(anime.version, 32) = header

\* updateAnimeHandler up to its call of Update
updateAnimeHandler(p, r) ==
    LET param == readIDParam(r.id)
        got == Get(animes, param.id)
    IN /\ Free(p)
       /\ Reaches(r, "updateAnimeHandler")
       /\ req' = [req EXCEPT ![p] =
                    IF param.err # "nil" THEN Done(r, "updateAnimeHandler", 404, NoAnime, NoList)
                    ELSE IF got.err # "nil"
                    THEN Done(r, "updateAnimeHandler", NotFoundOr500(got.err), NoAnime, NoList)
                    ELSE IF ~HeaderMatches(got.anime, r.header)
                    THEN Done(r, "updateAnimeHandler", 409, NoAnime, NoList)
                    ELSE IF ~r.body.ok
                    THEN Done(r, "updateAnimeHandler", 400, NoAnime, NoList)
                    ELSE IF ~ValidateAnime(Merged(got.anime, r.body))
                    THEN Done(r, "updateAnimeHandler", 422, NoAnime, NoList)
                    ELSE Updating(r, Merged(got.anime, r.body),
                                  {q \in Workers \ {p} :
                                      /\ req[q].pc = "update"
                                      /\ req[q].anime.id = got.anime.id
                                      /\ req[q].seen = got.anime.version})]
       /\ UNCHANGED <<animes, nextID, updated, deleted, last, limiterVars>>

\* updateAnimeHandler from its call of Update on
updateAnimeUpdate(p) ==
    /\ req[p].pc = "update"
    /\ \E out \in UpdateOutcomes(animes, req[p].anime) :
          /\ animes' = out.store
          /\ updated' = Counted(req[p].anime.id, out.err)
          /\ req' = [req EXCEPT ![p] =
                       [req[p] EXCEPT
                          !.pc = "done",
                          !.status = IF out.err = "nil" THEN 200
                                     ELSE IF out.err = "ErrEditConflict" THEN 409 ELSE 500,
                          !.anime = [req[p].anime EXCEPT !.version = out.version]]]
    /\ UNCHANGED <<nextID, deleted, last, limiterVars>>

deleteAnimeHandler(p, r) ==
    LET param == readIDParam(r.id)
        out == Delete(animes, param.id)
    IN /\ Free(p)
       /\ Reaches(r, "deleteAnimeHandler")
       /\ IF param.err # "nil"
          THEN /\ req' = [req EXCEPT ![p] = Done(r, "deleteAnimeHandler", 404, NoAnime, NoList)]
               /\ UNCHANGED <<animes, deleted>>
          ELSE /\ animes' = out.store
               /\ deleted' = IF out.err = "nil" THEN deleted \cup {param.id} ELSE deleted
               /\ req' = [req EXCEPT ![p] =
                            Done(r, "deleteAnimeHandler",
                                 IF out.err = "nil" THEN 200 ELSE NotFoundOr500(out.err),
                                 NoAnime, NoList)]
       /\ UNCHANGED <<nextID, updated, last, limiterVars>>

listAnimesHandler(p, r) ==
    /\ Free(p)
    /\ Reaches(r, "listAnimesHandler")
    /\ req' = [req EXCEPT ![p] =
                 IF ~ValidateFilters(r.query.filters)
                 THEN Done(r, "listAnimesHandler", 422, NoAnime, NoList)
                 ELSE Done(r, "listAnimesHandler", 200, NoAnime,
                           GetAll(animes, r.query.title, r.query.genres, r.query.filters))]
    /\ UNCHANGED <<animes, nextID, updated, deleted, last, limiterVars>>

Init ==
    /\ animes = <<>>
    /\ nextID = 1
    /\ updated = <<>>
    /\ deleted = {}
    /\ last = NoCall
    /\ req = [p \in Workers |-> Idle]
    /\ buckets = <<>>
    /\ now = 0
    /\ hist = <<>>
    /\ mu = "none"

\* The requests of clients holding animes:read and animes:write, served by
\* all the workers concurrently: well-formed requests on the anime routes,
\* one on another route and one on no route.
ClientRequests ==
    { r \in Requests :
        /\ r.cred = "writer"
        /\ r.mp[2] \in {"/v1/healthcheck", "/v1/animes/:id", "/v1/nothing"}
              \/ (r.mp[2] = "/v1/animes" /\ r.mp[1] # "PUT")
        /\ r.id >= 1
        /\ r.header \in {<<>>, FormatInt(FirstVersion, 10), FormatInt(FirstVersion + 1, 10)}
        /\ r.body.ok
        /\ r.query \in {DefaultQuery, Query(<<>>, <<>>, 1, 1, "created_at")} }

Next ==
    \/ \E p \in Workers, r \in ClientRequests : Reject(p, r)
    \/ \E p \in Workers, r \in ClientRequests : OtherHandler(p, r)
    \/ \E p \in Workers, r \in ClientRequests : createAnimeHandler(p, r)
    \/ \E p \in Workers, r \in ClientRequests : showAnimeHandler(p, r)
    \/ \E p \in Workers, r \in ClientRequests : updateAnimeHandler(p, r)
    \/ \E p \in Workers : updateAnimeUpdate(p)
    \/ \E p \in Workers, r \in ClientRequests : deleteAnimeHandler(p, r)
    \/ \E p \in Workers, r \in ClientRequests : listAnimesHandler(p, r)

Spec == Init /\ [][Next]_vars

\* The requests of every client, whatever its credential, served one after
\* the other.
GateNext ==
    \/ \E r \in Requests : Reject("w1", r)
    \/ \E r \in Requests : OtherHandler("w1", r)
    \/ \E r \in Requests : createAnimeHandler("w1", r)
    \/ \E r \in Requests : showAnimeHandler("w1", r)
    \/ \E r \in Requests : updateAnimeHandler("w1", r)
    \/ updateAnimeUpdate("w1")
    \/ \E r \in Requests : deleteAnimeHandler("w1", r)
    \/ \E r \in Requests : listAnimesHandler("w1", r)

SpecGate == Init /\ [][GateNext]_vars

\* ------------------------------------------ PATCH with X-Expected-Version
\* The table outlives the process: it may hold a row of any Version, left
\* by whatever has written to the database.  One such row, and the PATCH
\* requests that present a version in decimal.
MaxStoredVersion == 11  \* largest Version of the stored row

StoredAt(v) ==
    [InsertRow(Anime(<<1>>, 2002, 23, Slice(<<"action">>)), 1) EXCEPT !.version = v]

HeaderInit ==
    /\ \E v \in FirstVersion..MaxStoredVersion :
          /\ animes = [i \in {1} |-> StoredAt(v)]
          /\ updated = [i \in {1} |-> v - FirstVersion]
    /\ nextID = 2
    /\ deleted = {}
    /\ last = NoCall
    /\ req = [p \in Workers |-> Idle]
    /\ buckets = <<>>
    /\ now = 0
    /\ hist = <<>>
    /\ mu = "none"

HeaderRequests ==
    { [mp |-> <<"PATCH", "/v1/animes/:id">>, cred |-> "writer", id |-> 1,
       header |-> FormatInt(v, 10), body |-> Body([year |-> 2003]),
       query |-> DefaultQuery] : v \in FirstVersion..MaxStoredVersion }

HeaderNext ==
    \/ \E r \in HeaderRequests : updateAnimeHandler("w1", r)
    \/ updateAnimeUpdate("w1")

SpecHeader == HeaderInit /\ [][HeaderNext]_vars

\* ======================================================== the rate limiter
\* One token bucket per client IP.  Time is counted in ticks and a token is
\* refilled in TicksPerToken ticks, so a bucket's level is counted in
\* 1/TicksPerToken of a token.  The map and the buckets are used under one
\* lock: Allow and the sweep are atomic.
Burst == 2              \* B: the capacity of a bucket, in tokens
TicksPerToken == 2      \* 1/R: the ticks that refill one token
IdleTicks == 3          \* the sweep removes buckets idle for longer

MaxTime == 4            \* the clock stops here
MaxCalls == 5           \* calls of Allow recorded per bucket

IPs == {"ip1", "ip2"}

Full == Burst * TicksPerToken

\* a bucket created for a first request
NewBucket(t) == [level |-> Full, lastSeen |-> t]

\* the bucket Allow finds or creates
Lookup(m, ip, t) == IF ip \in DOMAIN m THEN m[ip] ELSE NewBucket(t)

\* one token is available
Admits(b) == b.level >= TicksPerToken

\* faulty variant: a call of Allow that takes no token
TakenNothing(b, t) == [level |-> b.level, lastSeen |-> t]

\* the bucket after a call of Allow at time t
Taken(b, t) ==
    [level |-> IF Admits(b) THEN b.level - TicksPerToken ELSE b.level, lastSeen |-> t]

\* the bucket one tick later
Refilled(b) == [b EXCEPT !.level = Min(b.level + 1, Full)]

Allow(ip) ==
    LET b == Lookup(buckets, ip, now)
        h == IF ip \in DOMAIN buckets THEN hist[ip] ELSE <<>>
    IN /\ Len(h) < MaxCalls
       /\ buckets' = [i \in (DOMAIN buckets) \cup {ip} |->
                        IF i = ip THEN Taken(b, now) ELSE buckets[i]]
       /\ hist' = [hist EXCEPT ![ip] = Append(h, [t |-> now, ok |-> Admits(b)])]
       /\ UNCHANGED <<now, mu, apiVars>>

Tick ==
    /\ now < MaxTime
    /\ now' = now + 1
    /\ buckets' = [i \in DOMAIN buckets |-> Refilled(buckets[i])]
    /\ UNCHANGED <<hist, mu, apiVars>>

Expired(b, t) == t - b.lastSeen > IdleTicks

Sweep ==
    /\ \E i \in DOMAIN buckets : Expired(buckets[i], now)
    /\ buckets' = [i \in {j \in DOMAIN buckets : ~Expired(buckets[j], now)} |-> buckets[i]]
    /\ UNCHANGED <<now, hist, mu, apiVars>>

LimitInit ==
    /\ animes = <<>>
    /\ nextID = 1
    /\ updated = <<>>
    /\ deleted = {}
    /\ last = NoCall
    /\ req = [p \in Workers |-> Idle]
    /\ buckets = <<>>
    /\ now = 0
    /\ hist = [ip \in IPs |-> <<>>]
    /\ mu = "none"

LimitNext ==
    \/ \E ip \in IPs : Allow(ip)
    \/ Tick
    \/ Sweep

SpecLimit == LimitInit /\ [][LimitNext]_vars

\* ------------------------------------- the rate limiter under its mutex
\* The calls of Allow made by concurrent request workers and the background
\* sweep, taken apart: a call waits for the mutex, locks it, finds or
\* creates the bucket of the IP and sees whether it holds a token, then
\* takes the token and unlocks.  The sweep locks, then deletes and unlocks.
LockIPs == {"ip1"}

\* faulty variant: a mutex that never blocks
CanLockAlways == TRUE

\* mu.Lock() returns
CanLock == mu = "none"

InAllow(p) == req[p].pc \in {"lock", "lookup", "take"}

AllowCall(p, ip) ==
    /\ req[p].pc = "idle"
    /\ Len(hist[ip]) + Cardinality({q \in Workers : InAllow(q)}) < MaxCalls
    /\ req' = [req EXCEPT ![p] = [pc |-> "lock", ip |-> ip]]
    /\ UNCHANGED <<animes, nextID, updated, deleted, last, limiterVars>>

AllowLock(p) ==
    /\ req[p].pc = "lock"
    /\ CanLock
    /\ mu' = p
    /\ req' = [req EXCEPT ![p] = [pc |-> "lookup", ip |-> req[p].ip]]
    /\ UNCHANGED <<animes, nextID, updated, deleted, last, buckets, now, hist>>

AllowLookup(p) ==
    LET ip == req[p].ip
        b == Lookup(buckets, ip, now)
    IN /\ req[p].pc = "lookup"
       /\ buckets' = [i \in (DOMAIN buckets) \cup {ip} |-> IF i = ip THEN b ELSE buckets[i]]
       /\ req' = [req EXCEPT ![p] = [pc |-> "take", ip |-> ip, ok |-> Admits(b),
                                     fresh |-> ip \notin DOMAIN buckets]]
       /\ UNCHANGED <<animes, nextID, updated, deleted, last, now, hist, mu>>

\* the token is taken from the bucket found; a bucket deleted from the map
\* in the meantime is no longer the map's
AllowTake(p) ==
    LET ip == req[p].ip
    IN /\ req[p].pc = "take"
       /\ buckets' = IF ip \in DOMAIN buckets
                     THEN [buckets EXCEPT ![ip] =
                             [level |-> IF req[p].ok THEN @.level - TicksPerToken ELSE @.level,
                              lastSeen |-> now]]
                     ELSE buckets
       /\ hist' = [hist EXCEPT ![ip] =
                     Append(@, [t |-> now, ok |-> req[p].ok, fresh |-> req[p].fresh])]
       /\ mu' = "none"
       /\ req' = [req EXCEPT ![p] = Idle]
       /\ UNCHANGED <<animes, nextID, updated, deleted, last, now>>

SweepLock ==
    /\ CanLock
    /\ mu' = "sweep"
    /\ UNCHANGED <<apiVars, buckets, now, hist>>

SweepDelete ==
    /\ mu = "sweep"
    /\ buckets' = [i \in {j \in DOMAIN buckets : ~Expired(buckets[j], now)} |-> buckets[i]]
    /\ mu' = "none"
    /\ UNCHANGED <<apiVars, now, hist>>

LockInit ==
    /\ animes = <<>>
    /\ nextID = 1
    /\ updated = <<>>
    /\ deleted = {}
    /\ last = NoCall
    /\ req = [p \in Workers |-> Idle]
    /\ buckets = <<>>
    /\ now = 0
    /\ hist = [ip \in LockIPs |-> <<>>]
    /\ mu = "none"

LockNext ==
    \/ \E p \in Workers, ip \in LockIPs : AllowCall(p, ip)
    \/ \E p \in Workers : AllowLock(p)
    \/ \E p \in Workers : AllowLookup(p)
    \/ \E p \in Workers : AllowTake(p)
    \/ SweepLock
    \/ SweepDelete
    \/ Tick

SpecLock == LockInit /\ [][LockNext]_vars

\* ==================================================== the middleware chain
\* One request at a time walks through recoverPanic(rateLimit(authenticate(
\* router))) and the requirePermission of its route, one stage a step.
\* `last` holds the request on its way: the stages entered so far (trace),
\* the stage to enter next ("none" once a stage has answered) and the
\* principal authenticate has put in the request context.  The worker is
\* idle until a handler runs.
\* faulty variant: authenticate(recoverPanic(rateLimit(router)))
MiddlewareAuthenticateFirst == <<"authenticate", "recoverPanic", "rateLimit", "router">>

\* the handlers of routes(), the outermost first
Middleware == <<"recoverPanic", "rateLimit", "authenticate", "router">>

\* the handler a middleware hands the request to
NextHandler(stage) ==
    LET k == CHOOSE i \in 1..Len(Middleware) : Middleware[i] = stage
    IN Middleware[k + 1]

Serving == last.op = "serve" /\ last.next # "none" /\ req["w1"].pc # "done"

Enters(stage) == last.op = "serve" /\ last.next = stage

\* the request goes on to stage `next`
Passed(stage, next) ==
    last' = [last EXCEPT !.trace = Append(@, stage), !.next = next]

\* the stage answers the request itself
Answered(stage, handler, status) ==
    /\ last' = [last EXCEPT !.trace = Append(@, stage), !.next = "none"]
    /\ req' = [req EXCEPT !["w1"] = Done(last.r, handler, status, NoAnime, NoList)]

\* http.Server hands a request to the handler routes() returned
ServeHTTP(r, ip) ==
    /\ ~Serving
    /\ Free("w1")
    /\ last' = [op |-> "serve", r |-> r, ip |-> ip, trace |-> <<>>,
                next |-> Middleware[1], principal |-> Anonymous]
    /\ req' = [req EXCEPT !["w1"] = Idle]
    /\ UNCHANGED <<animes, nextID, updated, deleted, limiterVars>>

recoverPanic ==
    /\ Enters("recoverPanic")
    /\ Passed("recoverPanic", NextHandler("recoverPanic"))
    /\ UNCHANGED <<animes, nextID, updated, deleted, req, limiterVars>>

rateLimit ==
    LET b == Lookup(buckets, last.ip, now)
    IN /\ Enters("rateLimit")
       /\ buckets' = [i \in (DOMAIN buckets) \cup {last.ip} |->
                        IF i = last.ip THEN Taken(b, now) ELSE buckets[i]]
       /\ IF Admits(b)
          THEN Passed("rateLimit", NextHandler("rateLimit")) /\ UNCHANGED req
          ELSE Answered("rateLimit", "none", 429)
       /\ UNCHANGED <<animes, nextID, updated, deleted, now, hist, mu>>

authenticateRequest ==
    LET auth == authenticate(last.r.cred)
    IN /\ Enters("authenticate")
       /\ IF auth.status # 0
          THEN Answered("authenticate", "none", auth.status)
          ELSE /\ last' = [last EXCEPT !.trace = Append(@, "authenticate"),
                                       !.next = NextHandler("authenticate"),
                                       !.principal = auth.principal]
               /\ UNCHANGED req
       /\ UNCHANGED <<animes, nextID, updated, deleted, limiterVars>>

router ==
    LET m == Match(last.r.mp[1], last.r.mp[2])
    IN /\ Enters("router")
       /\ IF m.status # 0
          THEN Answered("router", m.route.handler, m.status)
          ELSE /\ Passed("router", IF m.route.permission = "" THEN "handler"
                                   ELSE "requirePermission")
               /\ UNCHANGED req
       /\ UNCHANGED <<animes, nextID, updated, deleted, limiterVars>>

requirePermissionOfRoute ==
    LET rt == Match(last.r.mp[1], last.r.mp[2]).route
        perm == requirePermission(rt.permission, last.principal)
    IN /\ Enters("requirePermission")
       /\ IF perm # 0
          THEN Answered("requirePermission", "none", perm)
          ELSE Passed("requirePermission", "handler") /\ UNCHANGED req
       /\ UNCHANGED <<animes, nextID, updated, deleted, limiterVars>>

\* the registered handler is invoked with the request
Handles(r) == Enters("handler") /\ req["w1"].pc = "idle" /\ r = last.r

PipeRequests == { r \in Requests : r.id >= 1 /\ r.body.ok /\ r.query = DefaultQuery }

PipeIPs == {"ip1"}

PipeInit ==
    /\ animes = <<>>
    /\ nextID = 1
    /\ updated = <<>>
    /\ deleted = {}
    /\ last = NoCall
    /\ req = [p \in Workers |-> Idle]
    /\ buckets = <<>>
    /\ now = 0
    /\ hist = <<>>
    /\ mu = "none"

PipeNext ==
    \/ \E r \in PipeRequests, ip \in PipeIPs : ServeHTTP(r, ip)
    \/ recoverPanic
    \/ rateLimit
    \/ authenticateRequest
    \/ router
    \/ requirePermissionOfRoute
    \/ \E r \in PipeRequests : Handles(r) /\ OtherHandler("w1", r)
    \/ \E r \in PipeRequests : Handles(r) /\ createAnimeHandler("w1", r)
    \/ \E r \in PipeRequests : Handles(r) /\ showAnimeHandler("w1", r)
    \/ \E r \in PipeRequests : Handles(r) /\ updateAnimeHandler("w1", r)
    \/ updateAnimeUpdate("w1")
    \/ \E r \in PipeRequests : Handles(r) /\ deleteAnimeHandler("w1", r)
    \/ \E r \in PipeRequests : Handles(r) /\ listAnimesHandler("w1", r)
    \/ Tick
    \/ Sweep

SpecPipe == PipeInit /\ [][PipeNext]_vars

\* ================================================================ claims
\* worker p has come out of the Update call of updateAnimeHandler
Updated(p) ==
    req[p].pc = "done" /\ req[p].handler = "updateAnimeHandler" /\ req[p].seen >= FirstVersion

\* this step is worker p's call of Update
UpdateStep(p) == req[p].pc = "update" /\ req'[p].pc = "done"

\* C1: when two PATCH requests have both read a record at Version v and both
\* have called Update, exactly one got 200 and the other 409, and the record
\* of the one that got 200 and the stored row carry Version v + 1.
C1_OneOfTwoUpdatesWins ==
    \A p \in Workers : \A q \in Workers \ {p} :
        (Updated(p) /\ Updated(q) /\ q \in req[p].rivals) =>
            \E w \in {p, q} : \E l \in {p, q} \ {w} :
                /\ req[w].status = 200
                /\ req[l].status = 409
                /\ req[w].anime.version = req[w].seen + 1
                /\ req[w].anime.id \in DOMAIN animes
                /\ animes[req[w].anime.id].version = req[w].seen + 1

\* C2: the Version of every stored record is 1 plus the number of successful
\* Updates of it, and a call of Update that carries another Version than the
\* stored one leaves the stored record as it is.
C2_Counts ==
    \A id \in DOMAIN animes : animes[id].version = FirstVersion + updated[id]

C2_StaleKept ==
    \A id \in DOMAIN animes :
        (/\ last'.op = "Update"
         /\ last'.arg.id = id
         /\ last'.arg.version # animes[id].version)
            => (id \in DOMAIN animes' /\ animes'[id] = animes[id])

C2_VersionCountsUpdates == [](C2_Counts) /\ [][C2_StaleKept]_vars

C2_StaleUpdateMade ==
    /\ last.op = "Update"
    /\ last.arg.id \in DOMAIN animes
    /\ last.arg.version # animes[last.arg.id].version
    /\ last.arg.title # animes[last.arg.id].title
    /\ animes[last.arg.id].version = FirstVersion + updated[last.arg.id]

\* C3: a valid POST is answered 201 with version 1; a PATCH {"year":2003}
\* made on the current version v is answered 200 with version v + 1 and the
\* stored year becomes 2003; a PATCH that presents, in X-Expected-Version,
\* another version than the stored one is answered 409 and leaves the
\* stored record as it is.
C3_Post(p) ==
    (req'[p] # req[p] /\ req'[p].pc = "done" /\ req'[p].handler = "createAnimeHandler"
        /\ req'[p].r.body = ValidBody)
        => (req'[p].status = 201 /\ req'[p].anime.version = 1)

C3_Patch(p) ==
    (UpdateStep(p) /\ req[p].r.body = Body([year |-> 2003])
        /\ req[p].anime.id \in DOMAIN animes
        /\ req[p].seen = animes[req[p].anime.id].version)
        => /\ req'[p].status = 200
           /\ req'[p].anime.version = req[p].seen + 1
           /\ animes'[req[p].anime.id].version = req[p].seen + 1
           /\ animes'[req[p].anime.id].year = 2003

C3_StalePatch(p) ==
    (req'[p] # req[p] /\ req[p].pc # "update" /\ req'[p].handler = "updateAnimeHandler"
        /\ req'[p].r.id \in DOMAIN animes
        /\ req'[p].r.header # <<>>
        /\ req'[p].r.header # FormatInt(animes[req'[p].r.id].version, 10))
        => (req'[p].pc = "done" /\ req'[p].status = 409 /\ animes' = animes)

C3_PostPatchPatch ==
    [][\A p \in Workers : C3_Post(p) /\ C3_Patch(p) /\ C3_StalePatch(p)]_vars

\* C4: an ID that Delete has removed is not found by Get, whatever was
\* inserted, updated or deleted since.
C4_DeletedStaysGone ==
    \A id \in deleted : Get(animes, id).err = "ErrRecordNotFound"

C4_GetAfterDelete ==
    /\ last.op = "Get"
    /\ last.id \in deleted
    /\ last.res.err = "ErrRecordNotFound"
    /\ \E id \in DOMAIN animes : id > last.id

\* the route a request is matched to, when it passes authenticate and is
\* matched to a route registered behind requirePermission
Guarded(r) ==
    /\ authenticate(r.cred).status = 0
    /\ Match(r.mp[1], r.mp[2]).status = 0
    /\ Match(r.mp[1], r.mp[2]).route.permission # ""

\* C5: behind requirePermission(key, h), an Anonymous principal is answered
\* 401 and an Authenticated one without key 403, neither reaching h; h is
\* reached only by an Authenticated principal that holds key.
C5_PermissionGuardsHandler ==
    \A p \in Workers :
        (req[p].pc # "idle" /\ Guarded(req[p].r)) =>
            LET r == req[p].r
                rt == Match(r.mp[1], r.mp[2]).route
            IN /\ r.cred = "none" => (req[p].status = 401 /\ req[p].handler = "none")
               /\ (r.cred \in Users /\ rt.permission \notin Granted[r.cred])
                     => (req[p].status = 403 /\ req[p].handler = "none")
               /\ req[p].handler = rt.handler
                     => (r.cred \in Users /\ rt.permission \in Granted[r.cred])

C5_ReaderForbiddenToDelete ==
    \E p \in Workers :
        /\ req[p].pc = "done"
        /\ req[p].r.cred = "reader"
        /\ req[p].r.mp = <<"DELETE", "/v1/animes/:id">>
        /\ req[p].status = 403
        /\ req[p].handler = "none"
        /\ req[p].r.id \in DOMAIN animes

AnimePaths == {"/v1/animes", "/v1/animes/:id"}

OpenRoutes ==
    { <<"GET", "/v1/healthcheck">>, <<"POST", "/v1/users">>,
      <<"PUT", "/v1/users/activated">>, <<"POST", "/v1/tokens/authentication">> }

\* C6: the anime routes that write are registered behind animes:write and
\* those that read behind animes:read; the animes table is changed only by
\* the request of a principal holding animes:write; the other four routes
\* reach their handler for an Anonymous principal.
C6_Registered ==
    /\ \A rt \in Routes :
          rt.path \in AnimePaths =>
              rt.permission = IF rt.method = "GET" THEN "animes:read" ELSE "animes:write"
    /\ \A mp \in { <<"GET", "/v1/animes">>, <<"POST", "/v1/animes">>,
                   <<"GET", "/v1/animes/:id">>, <<"PATCH", "/v1/animes/:id">>,
                   <<"DELETE", "/v1/animes/:id">> } :
          \E rt \in Routes : rt.method = mp[1] /\ rt.path = mp[2]

C6_Open ==
    \A p \in Workers :
        (req[p].pc = "done" /\ req[p].r.cred = "none" /\ req[p].r.mp \in OpenRoutes)
            => (req[p].handler \in OtherHandlers /\ req[p].status \notin {401, 403, 404, 405})

C6_WriteNeedsPermission ==
    animes' # animes =>
        \E p \in Workers :
            /\ req'[p] # req[p]
            /\ req'[p].r.cred \in Users
            /\ "animes:write" \in Granted[req'[p].r.cred]

C6_RoutesBehindPermissions ==
    [](C6_Registered /\ C6_Open) /\ [][C6_WriteNeedsPermission]_vars

C6_WriterDeleted ==
    \E p \in Workers :
        /\ req[p].pc = "done"
        /\ req[p].handler = "deleteAnimeHandler"
        /\ req[p].status = 200
        /\ req[p].r.cred = "writer"
        /\ req[p].r.id \in deleted

\* C7: of the calls of Allow made on a bucket at the time of its creation,
\* the first Burst are admitted and the others rejected; if the bucket was
\* emptied then, of the calls made until one token has been refilled the
\* only one admitted is the first made when the token is there.
C7_BurstThenOneMore ==
    \A ip \in IPs :
        LET h == hist[ip]
            t0 == h[1].t
            atStart == {k \in 1..Len(h) : h[k].t = t0}
            atRefill == {k \in 1..Len(h) : h[k].t = t0 + TicksPerToken}
            during == {k \in 1..Len(h) : h[k].t > t0 /\ h[k].t < t0 + TicksPerToken}
        IN h # <<>> =>
              /\ \A k \in atStart : h[k].ok <=> k <= Burst
              /\ Cardinality(atStart) >= Burst =>
                    /\ \A k \in during : ~h[k].ok
                    /\ \A k \in atRefill : h[k].ok <=> (\A j \in atRefill : k <= j)

C7_BurstRefillSeen ==
    \E ip \in IPs :
        LET h == hist[ip]
        IN /\ Len(h) = Burst + 3
           /\ \A k \in 1..(Burst + 1) : h[k].t = h[1].t
           /\ ~h[Burst + 1].ok
           /\ h[Burst + 2].t = h[1].t + TicksPerToken
           /\ h[Burst + 3].t = h[1].t + TicksPerToken
           /\ h[Burst + 2].ok
           /\ ~h[Burst + 3].ok

\* C8: the TotalRecords of the metadata GetAll returns is the number of the
\* records that match the title and the genres, whatever the page.
C8_TotalRecordsCountsMatches ==
    last.op = "GetAll" =>
        last.res.metadata.TotalRecords
            = Cardinality(Matching(animes, last.title, last.genres))

\* C9: without title and genres, GetAll returns stored records, no more than
\* PageSize of them, in the order of the sort column, ascending or, for a
\* Sort with a leading "-", descending, records of equal sort value by
\* ascending ID.
C9_ListOrdered ==
    (last.op = "GetAll" /\ last.title = <<>> /\ last.genres = <<>>) =>
        LET rows == last.res.animes
            col == sortColumn(last.filters)
            desc == last.filters.Sort \in Descending
        IN /\ Len(rows) <= last.filters.PageSize
           /\ \A k \in 1..Len(rows) :
                 rows[k].id \in DOMAIN animes /\ animes[rows[k].id] = rows[k]
           /\ \A i \in 1..Len(rows) : \A j \in (i + 1)..Len(rows) :
                 LET lower == ColumnLess(rows[i], rows[j], col)
                     higher == ColumnLess(rows[j], rows[i], col)
                 IN /\ IF desc THEN ~lower ELSE ~higher
                    /\ (~lower /\ ~higher) => rows[i].id < rows[j].id

C9_TieListedDescending ==
    /\ last.op = "GetAll"
    /\ last.title = <<>>
    /\ last.genres = <<>>
    /\ last.filters.Sort = "-year"
    /\ Len(last.res.animes) = 2
    /\ last.res.animes[1].year = last.res.animes[2].year
    /\ Cardinality(DOMAIN animes) = 3

\* C10: the metadata computed for a positive TotalRecords has FirstPage = 1
\* and LastPage = ceil(TotalRecords / PageSize); for TotalRecords = 0 every
\* field is zero.
C10_LastPageIsCeiling ==
    last.op = "calculateMetadata" =>
        LET m == last.res
        IN IF last.total = 0
           THEN /\ m.CurrentPage = 0
                /\ m.PageSize = 0
                /\ m.FirstPage = 0
                /\ m.LastPage = 0
                /\ m.TotalRecords = 0
           ELSE /\ m.FirstPage = 1
                /\ m.LastPage * last.pageSize >= last.total
                /\ (m.LastPage - 1) * last.pageSize < last.total

C10_PartialLastPage ==
    /\ last.op = "calculateMetadata"
    /\ last.total > last.pageSize
    /\ last.total % last.pageSize # 0
    /\ last.res.LastPage = (last.total \div last.pageSize) + 1

\* C11: a PATCH that carries X-Expected-Version on a stored record of
\* Version v passes the header check and goes on to Update when the header
\* is v written in decimal; with any other version in the header it is
\* answered 409 and the table is left as it is.
C11_HeaderCheck(p) ==
    (/\ req'[p] # req[p]
     /\ req[p].pc # "update"
     /\ req'[p].handler = "updateAnimeHandler"
     /\ req'[p].r.id \in DOMAIN animes
     /\ req'[p].r.header # <<>>
     /\ req'[p].r.body = Body([year |-> 2003]))
        => IF req'[p].r.header = FormatInt(animes[req'[p].r.id].version, 10)
           THEN req'[p].pc = "update" /\ req'[p].seen = animes[req'[p].r.id].version
           ELSE req'[p].pc = "done" /\ req'[p].status = 409 /\ animes' = animes

C11_HeaderComparedInDecimal == [][\A p \in Workers : C11_HeaderCheck(p)]_vars

\* C12: Get and Delete of an id below 1 return ErrRecordNotFound and leave
\* the table as it is; of an id from 1 on they return ErrRecordNotFound
\* exactly when the table holds no row of that ID, otherwise Get returns the
\* stored row and Delete removes that row and no other.
C12_Get ==
    last'.op = "Get" =>
        /\ animes' = animes
        /\ last'.res.err = "ErrRecordNotFound"
              <=> (last'.id < 1 \/ last'.id \notin DOMAIN animes)
        /\ last'.res.err # "ErrRecordNotFound"
              => (last'.res.err = "nil" /\ last'.res.anime = animes[last'.id])

C12_Delete ==
    last'.op = "Delete" =>
        /\ last'.err = "ErrRecordNotFound"
              <=> (last'.id < 1 \/ last'.id \notin DOMAIN animes)
        /\ last'.err = "ErrRecordNotFound" => animes' = animes
        /\ last'.err # "ErrRecordNotFound"
              => /\ last'.err = "nil"
                 /\ DOMAIN animes' = (DOMAIN animes) \ {last'.id}
                 /\ \A i \in DOMAIN animes' : animes'[i] = animes[i]

C12_GetAndDeleteById == [][C12_Get /\ C12_Delete]_vars

C12_DeletedOneOfTwo ==
    /\ last.op = "Delete"
    /\ last.err = "nil"
    /\ last.id \notin DOMAIN animes
    /\ last.id \in deleted
    /\ DOMAIN animes # {}

\* worker p has answered a POST /v1/animes with 201
Created(p) ==
    req[p].pc = "done" /\ req[p].handler = "createAnimeHandler" /\ req[p].status = 201

\* C13: a POST answered 201 carries the Location /v1/animes/<id> of the ID
\* Insert assigned, an ID no earlier insert was given; a GET of that
\* location, with no update or delete of the record in between, is answered
\* with the title, year, runtime and genres posted and with version 1.
C13_Post(p) ==
    (req'[p] # req[p] /\ req'[p].pc = "done" /\ req'[p].handler = "createAnimeHandler"
        /\ req'[p].status = 201)
        => /\ req'[p].location = Location(nextID)
           /\ nextID \notin DOMAIN updated
           /\ nextID \notin DOMAIN animes
           /\ nextID \in DOMAIN animes'
           /\ animes'[nextID].version = 1

C13_Get(p, q) ==
    (/\ Created(p)
     /\ req'[q] # req[q]
     /\ req'[q].pc = "done"
     /\ "GET" = req'[q].r.mp[1]
     /\ "/v1/animes/:id" = req'[q].r.mp[2]
     /\ req'[q].r.id = ParseInt(req[p].location[2], 10)
     /\ req'[q].r.id \notin deleted
     /\ req'[q].r.id \in DOMAIN updated
     /\ updated[req'[q].r.id] = 0)
        => /\ req'[q].status = 200
           /\ req'[q].anime.title = req[p].r.body.fields.title
           /\ req'[q].anime.year = req[p].r.body.fields.year
           /\ req'[q].anime.runtime = req[p].r.body.fields.runtime
           /\ req'[q].anime.genres = req[p].r.body.fields.genres
           /\ req'[q].anime.version = 1

C13_DistinctIDs ==
    \A p \in Workers : \A q \in Workers \ {p} :
        (Created(p) /\ Created(q)) => req[p].location # req[q].location

C13_CreatedIsFound ==
    /\ [](C13_DistinctIDs)
    /\ [][\A p \in Workers : C13_Post(p) /\ \A q \in Workers : C13_Get(p, q)]_vars

C13_SecondCreatedShown ==
    \E p \in Workers : \E q \in Workers \ {p} :
        /\ Created(p)
        /\ req[p].location = Location(2)
        /\ req[q].pc = "done"
        /\ req[q].handler = "showAnimeHandler"
        /\ req[q].status = 200
        /\ req[q].r.id = 2
        /\ req[q].anime.title = req[p].r.body.fields.title
        /\ 1 \in DOMAIN animes

\* C14: when the record a PATCH request has read is deleted before the
\* request calls Update, the Update fails with ErrEditConflict, the request
\* is answered 409 and the record stays absent from the table.
C14_UpdateAfterDelete(p) ==
    (UpdateStep(p) /\ req[p].anime.id \in deleted)
        => /\ req'[p].status = 409
           /\ req[p].anime.id \notin DOMAIN animes'

C14_UpdateOfDeletedConflicts == [][\A p \in Workers : C14_UpdateAfterDelete(p)]_vars

\* the stages before the handler, in the order of the claim
StageOrder == <<"recoverPanic", "rateLimit", "authenticate", "router", "requirePermission">>

IsPrefix(s, t) == Len(s) <= Len(t) /\ SubSeq(t, 1, Len(s)) = s

\* a handler registered in routes() has run for the request on its way
HandlerReached ==
    req["w1"].pc \in {"update", "done"} /\ req["w1"].handler \in {rt.handler : rt \in Routes}

\* the request on its way would fail the permission check of its route
FailsPermission ==
    /\ Guarded(last.r)
    /\ requirePermission(Match(last.r.mp[1], last.r.mp[2]).route.permission,
                         authenticate(last.r.cred).principal) # 0

\* C15: a request enters the stages in the order recoverPanic, rateLimit,
\* authenticate, router, requirePermission, handler; a stage that rejects it
\* ends it: a rate-limited request is not authenticated or routed, one with
\* an invalid credential reaches neither the router nor a handler, and one
\* failing the permission check reaches neither its handler nor the table.
C15_Stages ==
    last.op = "serve" =>
        /\ IsPrefix(last.trace, StageOrder)
        /\ HandlerReached =>
              /\ last.next = "handler"
              /\ IsPrefix(SubSeq(StageOrder, 1, 4), last.trace)
              /\ Guarded(last.r) => last.trace = StageOrder
        /\ last.next = "none" =>
              /\ req["w1"].pc = "done"
              /\ ~HandlerReached
              /\ req["w1"].status \in {429, 401, 403, 404, 405}
        /\ (req["w1"].pc = "done" /\ req["w1"].status = 429) =>
              (last.trace = <<"recoverPanic", "rateLimit">> /\ last.next = "none")
        /\ last.r.cred = "bad" =>
              (~HandlerReached /\ \A k \in 1..Len(last.trace) : last.trace[k] # "router")
        /\ FailsPermission => ~HandlerReached

C15_StoreBehindStages ==
    animes' # animes =>
        /\ last.op = "serve"
        /\ last.next = "handler"
        /\ IsPrefix(SubSeq(StageOrder, 1, 4), last.trace)
        /\ ~FailsPermission
        /\ last.r.cred # "bad"

C15_StagesInOrder == [](C15_Stages) /\ [][C15_StoreBehindStages]_vars

C15_RateLimitedBeforeAuthenticate ==
    /\ last.op = "serve"
    /\ last.r.cred = "bad"
    /\ last.trace = <<"recoverPanic", "rateLimit">>
    /\ last.next = "none"
    /\ req["w1"].pc = "done"
    /\ req["w1"].status = 429
    /\ DOMAIN animes # {}

\* C16: however concurrent calls of Allow for one IP interleave, no more
\* than Burst of the calls made at one instant are admitted and the level of
\* a bucket never falls below zero; however the sweep interleaves with a
\* call of Allow, the bucket the call works on is in the map, and is full
\* when the call created it.
C16_Admitted(ip, t) == {k \in 1..Len(hist[ip]) : hist[ip][k].t = t /\ hist[ip][k].ok}

C16_AllowIsSerialized ==
    /\ \A ip \in DOMAIN buckets : buckets[ip].level >= 0 /\ buckets[ip].level <= Full
    /\ \A ip \in DOMAIN hist : \A t \in 0..now : Cardinality(C16_Admitted(ip, t)) <= Burst
    /\ \A p \in Workers :
          req[p].pc = "take" =>
              /\ req[p].ip \in DOMAIN buckets
              /\ req[p].ok => Admits(buckets[req[p].ip])
              /\ req[p].fresh => buckets[req[p].ip].level = Full

C16_ContendedAfterSweep ==
    \E p \in Workers : \E q \in Workers \ {p} : \E ip \in LockIPs :
        /\ req[p].pc = "lock"
        /\ req[p].ip = ip
        /\ req[q].pc = "take"
        /\ req[q].ip = ip
        /\ ~req[q].ok
        /\ Cardinality(C16_Admitted(ip, now)) = Burst
        /\ \E k \in 2..Len(hist[ip]) : hist[ip][k].fresh

\* worker p answers a request in this step, outside its call of Update
Answers(p, handler) ==
    req'[p] # req[p] /\ req[p].pc # "update" /\ req'[p].handler = handler

\* the record createAnimeHandler builds from a body
Posted(body) ==
    Anime(Field(body, "title", <<>>), Field(body, "year", 0),
          Field(body, "runtime", 0), Field(body, "genres", NilSlice))

\* C17: a POST whose body fails ValidateAnime and a PATCH whose merged record
\* fails ValidateAnime are answered 422 without a call of Insert or Update,
\* the table left as it is; a list request whose filters fail
\* ValidateFilters is answered 422 without a call of GetAll.
C17_Post(p) ==
    (Answers(p, "createAnimeHandler") /\ req'[p].r.body.ok
        /\ ~ValidateAnime(Posted(req'[p].r.body)))
        => /\ req'[p].status = 422
           /\ UNCHANGED <<animes, nextID, updated>>

C17_Patch(p) ==
    (Answers(p, "updateAnimeHandler") /\ req'[p].r.body.ok
        /\ req'[p].r.header = <<>>
        /\ req'[p].r.id \in DOMAIN animes
        /\ ~ValidateAnime(Merged(animes[req'[p].r.id], req'[p].r.body)))
        => /\ req'[p].pc = "done"
           /\ req'[p].status = 422
           /\ UNCHANGED <<animes, nextID, updated>>

C17_List(p) ==
    (Answers(p, "listAnimesHandler") /\ ~ValidateFilters(req'[p].r.query.filters))
        => /\ req'[p].status = 422
           /\ req'[p].list = NoList
           /\ UNCHANGED <<animes, nextID, updated>>

RECURSIVE Listed(_)
Listed(pages) ==
    IF pages = <<>> THEN <<>> ELSE Head(pages).animes \o Listed(Tail(pages))

\* the record satisfies the query: every word of the title query occurs in
\* its title and every genre of the filter is one of its genres
Satisfies(row, title, genres) ==
    /\ title = <<>> \/ \A k \in 1..Len(title) : \E j \in 1..Len(row.title) : row.title[j] = title[k]
    /\ genres = <<>> \/ \A k \in 1..Len(genres) :
                            \E j \in 1..Len(row.genres.elems) : row.genres.elems[j] = genres[k]

\* C18: the records GetAll returns over all the pages are the stored records
\* that satisfy (title query empty or matched by the title) and (genre
\* filter empty or contained in the record's genres), and no other.
C18_ListedIffMatching ==
    last.op = "GetAll pages" =>
        LET rows == Listed(last.pages)
        IN /\ \A k \in 1..Len(rows) :
                 /\ rows[k].id \in DOMAIN animes
                 /\ animes[rows[k].id] = rows[k]
                 /\ Satisfies(rows[k], last.title, last.genres)
           /\ \A i \in DOMAIN animes :
                 Satisfies(animes[i], last.title, last.genres)
                     => \E k \in 1..Len(rows) : rows[k] = animes[i]

C18_FilteredByBoth ==
    /\ last.op = "GetAll pages"
    /\ last.title = <<1>>
    /\ last.genres = <<"action", "adventure">>
    /\ Len(Listed(last.pages)) = 1
    /\ \E i \in DOMAIN animes :
          /\ Satisfies(animes[i], last.title, <<"action">>)
          /\ ~Satisfies(animes[i], last.title, last.genres)
    /\ \E i \in DOMAIN animes : ~Satisfies(animes[i], last.title, <<>>)

\* C19: the pages 1..LastPage that GetAll returns for one table, query, Sort
\* and PageSize share no record, and one after the other they list every
\* matching record once, in the order of the sort column and direction,
\* records of equal sort value by ascending ID.
C19_PagesPartitionTheList ==
    last.op = "GetAll pages" =>
        LET rows == Listed(last.pages)
            col == sortColumn(last.filters)
            desc == last.filters.Sort \in Descending
        IN /\ \A i \in 1..Len(rows) : \A j \in (i + 1)..Len(rows) : rows[i].id # rows[j].id
           /\ \A i \in DOMAIN animes :
                 Satisfies(animes[i], last.title, last.genres)
                     <=> \E k \in 1..Len(rows) : rows[k] = animes[i]
           /\ \A k \in DOMAIN last.pages :
                 Len(last.pages[k].animes) =
                     IF k < Len(last.pages) THEN last.filters.PageSize
                     ELSE Len(rows) - (k - 1) * last.filters.PageSize
           /\ \A i \in 1..Len(rows) : \A j \in (i + 1)..Len(rows) :
                 LET lower == ColumnLess(rows[i], rows[j], col)
                     higher == ColumnLess(rows[j], rows[i], col)
                 IN /\ IF desc THEN ~lower ELSE ~higher
                    /\ (~lower /\ ~higher) => rows[i].id < rows[j].id

C19_TieAcrossPages ==
    /\ last.op = "GetAll pages"
    /\ last.filters.Sort = "-year"
    /\ last.filters.PageSize = 1
    /\ Len(last.pages) = 3
    /\ last.pages[1].animes[1].year = last.pages[2].animes[1].year
    /\ last.pages[1].animes[1].id < last.pages[2].animes[1].id
    /\ last.pages[3].animes[1].year < last.pages[2].animes[1].year

\* C20: a PATCH that succeeds, made on the current version of a record,
\* sets in the stored record the fields its body carries to the values
\* supplied and adds one to the Version; the fields the body does not carry,
\* the ID and CreatedAt keep their values and no other record changes.
C20_Applied(p) ==
    LET id == req[p].anime.id
        old == animes[id]
        new == animes'[id]
        body == req[p].r.body
    IN /\ req'[p].status = 200
       /\ id \in DOMAIN animes'
       /\ new.title = IF Has(body, "title") THEN body.fields.title ELSE old.title
       /\ new.year = IF Has(body, "year") THEN body.fields.year ELSE old.year
       /\ new.runtime = IF Has(body, "runtime") THEN body.fields.runtime ELSE old.runtime
       /\ new.genres = IF Has(body, "genres") THEN body.fields.genres ELSE old.genres
       /\ new.version = old.version + 1

C20_Frame(p) ==
    LET id == req[p].anime.id
    IN /\ id \in DOMAIN animes => /\ id \in DOMAIN animes'
                                  /\ animes'[id].id = animes[id].id
                                  /\ animes'[id].created_at = animes[id].created_at
       /\ \A j \in (DOMAIN animes) \ {id} : j \in DOMAIN animes' /\ animes'[j] = animes[j]
       /\ DOMAIN animes' \subseteq DOMAIN animes

C20_Patch(p) ==
    (UpdateStep(p) /\ req[p].anime.id \in DOMAIN animes
        /\ req[p].seen = animes[req[p].anime.id].version)
        => (C20_Applied(p) /\ C20_Frame(p))

====
